---- MODULE Spec2Model ----
\* Model of the bmfont binary decoder (src/lib.rs): parse_bin over a byte
\* buffer read through a std::io::Cursor, and BMFont::str_to_chars.
\* Cursor positions are 0-based as in Cursor; the byte at position p of a
\* buffer b is b[p + 1].
EXTENDS Integers, Sequences, FiniteSets, TLC

\* ------------------------------------------------------------------
\* Bounds of the explored inputs.
MaxPages == 2
MaxChars == 2
MaxPairs == 2
MaxText == 2

\* ------------------------------------------------------------------
\* Error values.  io::ErrorKind::UnexpectedEof comes from read_exact; the
\* three InvalidData errors are told apart by their payload.
UnexpectedEof == "UnexpectedEof"
MissingIdentifier == "Missing BMF file identifier"
InvalidString == "Invalid string"
FromUtf8Error == "FromUtf8Error"
NoError == "none"

\* ------------------------------------------------------------------
\* Cursor reader.

Min(a, b) == IF a < b THEN a ELSE b

\* A bounds check that is off by one: a read may end one byte past the
\* buffer, the missing byte reading as the 0 the array was filled with.
ReadExact_offByOne(b, p, n) ==
    IF p + n <= Len(b) + 1
    THEN [err |-> NoError,
          val |-> [i \in 1..n |-> IF p + i <= Len(b) THEN b[p + i] ELSE 0],
          pos |-> p + n]
    ELSE [err |-> UnexpectedEof, val |-> <<>>, pos |-> Len(b)]

\* Read::read_exact on Cursor<&[u8]>: all n bytes or UnexpectedEof.
ReadExact(b, p, n) ==
    IF p + n <= Len(b)
    THEN [err |-> NoError, val |-> SubSeq(b, p + 1, p + n), pos |-> p + n]
    ELSE [err |-> UnexpectedEof, val |-> <<>>, pos |-> Len(b)]

\* Seek::seek(SeekFrom::Current(n)) on Cursor, n >= 0: the position moves
\* even past the end of the buffer, and no error is raised.
SeekCurrent(p, n) == p + n

\* Position of the first zero byte at or after position p, or Len(b) if none.
RECURSIVE FindZero(_, _)
FindZero(b, p) ==
    IF p >= Len(b) THEN Len(b)
    ELSE IF b[p + 1] = 0 THEN p
    ELSE FindZero(b, p + 1)

\* BufRead::read_until(0, &mut string) on Cursor: the bytes up to and
\* including the first zero byte, or up to the end of the buffer.  `from` is
\* where the remaining slice starts, z where its first zero byte is.
Taken(b, from, z) ==
    [val |-> SubSeq(b, from + 1, Min(z + 1, Len(b))), pos |-> Min(z + 1, Len(b))]

ReadUntil(b, p) ==
    IF p >= Len(b) THEN [val |-> <<>>, pos |-> p]
    ELSE Taken(b, p, FindZero(b, p))

\* ------------------------------------------------------------------
\* Primitive extractors.

\* transmute::<[u8; 4], u32>: the bytes in the target's byte order.
u8_to_u32(a, le) ==
    IF le THEN a[1] + 256 * a[2] + 65536 * a[3] + 16777216 * a[4]
    ELSE a[4] + 256 * a[3] + 65536 * a[2] + 16777216 * a[1]

u8_to_u16(a, le) ==
    IF le THEN a[1] + 256 * a[2] ELSE a[2] + 256 * a[1]

\* `as i16` on a u16.
as_i16(u) == IF u >= 32768 THEN u - 65536 ELSE u

U8Of(r) == [err |-> r.err, val |-> IF r.err = NoError THEN r.val[1] ELSE 0, pos |-> r.pos]
U16Of(r, le) ==
    [err |-> r.err, val |-> IF r.err = NoError THEN u8_to_u16(r.val, le) ELSE 0, pos |-> r.pos]
U32Of(r, le) ==
    [err |-> r.err, val |-> IF r.err = NoError THEN u8_to_u32(r.val, le) ELSE 0, pos |-> r.pos]
I16Of(r) == [err |-> r.err, val |-> as_i16(r.val), pos |-> r.pos]

parse_u8(b, p) == U8Of(ReadExact(b, p, 1))
parse_u16(b, p, le) == U16Of(ReadExact(b, p, 2), le)
parse_u32(b, p, le) == U32Of(ReadExact(b, p, 4), le)
parse_i16(b, p, le) == I16Of(parse_u16(b, p, le))

\* String::from_utf8 validity of a byte sequence (well-formed UTF-8 as Rust
\* checks it: no overlong forms, no surrogates, nothing above U+10FFFF).
IsCont(x) == x >= 128 /\ x <= 191

RECURSIVE IsUtf8(_)
IsUtf8(s) ==
    IF s = <<>> THEN TRUE
    ELSE LET c == s[1]
             n == Len(s)
         IN IF c < 128 THEN IsUtf8(Tail(s))
            ELSE IF c >= 194 /\ c <= 223
                 THEN n >= 2 /\ IsCont(s[2]) /\ IsUtf8(SubSeq(s, 3, n))
            ELSE IF c >= 224 /\ c <= 239
                 THEN /\ n >= 3
                      /\ IsCont(s[2])
                      /\ (c = 224 => s[2] >= 160)
                      /\ (c = 237 => s[2] <= 159)
                      /\ IsCont(s[3])
                      /\ IsUtf8(SubSeq(s, 4, n))
            ELSE IF c >= 240 /\ c <= 244
                 THEN /\ n >= 4
                      /\ IsCont(s[2])
                      /\ (c = 240 => s[2] >= 144)
                      /\ (c = 244 => s[2] <= 143)
                      /\ IsCont(s[3])
                      /\ IsCont(s[4])
                      /\ IsUtf8(SubSeq(s, 5, n))
            ELSE FALSE

\* Vec::pop: the vector without its last element.
Popped(v) == SubSeq(v, 1, Len(v) - 1)

\* parse_string!: read_until(0), pop the last byte read (an empty read is
\* "Invalid string"), from_utf8.  A String is represented by its UTF-8
\* bytes.  r is what read_until gave.
StringOf(r) ==
    IF Len(r.val) = 0 THEN [err |-> InvalidString, val |-> <<>>, pos |-> r.pos]
    ELSE IF ~IsUtf8(Popped(r.val)) THEN [err |-> FromUtf8Error, val |-> <<>>, pos |-> r.pos]
    ELSE [err |-> NoError, val |-> Popped(r.val), pos |-> r.pos]

parse_string(b, p) == StringOf(ReadUntil(b, p))

\* One more element pushed in front of what the rest of a loop gave.
Push(x, rest) ==
    [err |-> rest.err,
     val |-> IF rest.err = NoError THEN <<x>> \o rest.val ELSE <<>>,
     pos |-> rest.pos]

\* A run of parse_* calls one after the other: the fields of the given byte
\* widths are read in order, and the first read that fails ends the run.
RECURSIVE ReadFields(_, _, _)
FieldsAfter(b, widths, r) ==
    IF r.err # NoError THEN [err |-> r.err, val |-> <<>>, pos |-> r.pos]
    ELSE Push(r.val, ReadFields(b, r.pos, Tail(widths)))

ReadFields(b, p, widths) ==
    IF widths = <<>> THEN [err |-> NoError, val |-> <<>>, pos |-> p]
    ELSE FieldsAfter(b, widths, ReadExact(b, p, Head(widths)))

\* bit_field & (1 << k) != 0
BitSet(x, k) == (x \div (2 ^ k)) % 2 = 1

\* ------------------------------------------------------------------
\* Data model.

\* size_of::<Char>(): u32 + 7 * 16 bit + 2 * u8 = 20 bytes, alignment 4.
SizeOfChar == 20
\* size_of::<Kerning>(): u32 + u32 + i16 = 10 bytes of fields, padded to the
\* struct's alignment of 4.
SizeOfKerning == 12

Signature == <<66, 77, 70, 3>>

None == [some |-> FALSE, list |-> <<>>]
Some(l) == [some |-> TRUE, list |-> l]

\* An insert that keeps the entry a key already has (entry().or_insert()).
Insert_keepFirst(m, c) ==
    [k \in (DOMAIN m) \cup {c.id} |-> IF k \in DOMAIN m THEN m[k] ELSE c]

\* HashMap<u32, Char> as a function from the keys present.
EmptyMap == [k \in {} |-> k]
Insert(m, c) ==
    [k \in (DOMAIN m) \cup {c.id} |-> IF k = c.id THEN c ELSE m[k]]

ZeroInfo ==
    [font_size |-> 0, smooth |-> FALSE, unicode |-> FALSE, italic |-> FALSE,
     bold |-> FALSE, fixed_height |-> FALSE, charset |-> 0, stretch_h |-> 0,
     aa |-> 0, padding_up |-> 0, padding_right |-> 0, padding_down |-> 0,
     padding_left |-> 0, spacing_horiz |-> 0, spacing_vert |-> 0, outline |-> 0,
     font_name |-> <<>>]

ZeroCommon ==
    [line_height |-> 0, base |-> 0, scale_w |-> 0, scale_h |-> 0, pages |-> 0,
     packed |-> FALSE, alpha_chnl |-> 0, red_chnl |-> 0, green_chnl |-> 0,
     blue_chnl |-> 0]

ZeroFont ==
    [info |-> ZeroInfo, common |-> ZeroCommon, pages |-> <<>>, chars |-> EmptyMap,
     kernings |-> None]

\* ------------------------------------------------------------------
\* The stages of parse_bin.  Each takes the buffer, the cursor position and
\* the target's byte order, and yields [err, val, pos].

\* parse_many!(buff, 4) != [66,77,70,3]
\* A check of the three letters only, whatever the version byte.
IdentifierOf_lettersOnly(r) ==
    IF r.err # NoError THEN [err |-> r.err, pos |-> r.pos]
    ELSE IF SubSeq(r.val, 1, 3) # SubSeq(Signature, 1, 3)
         THEN [err |-> MissingIdentifier, pos |-> r.pos]
    ELSE [err |-> NoError, pos |-> r.pos]

IdentifierOf(r) ==
    IF r.err # NoError THEN [err |-> r.err, pos |-> r.pos]
    ELSE IF r.val # Signature THEN [err |-> MissingIdentifier, pos |-> r.pos]
    ELSE [err |-> NoError, pos |-> r.pos]

ParseIdentifier(b, p) == IdentifierOf(ReadExact(b, p, 4))

InfoWidths == <<2, 1, 1, 2, 1, 1, 1, 1, 1, 1, 1, 1>>

\* Info { .. } from the fields v read in order and the name s.
InfoOf(v, s, le) ==
    IF s.err # NoError THEN [err |-> s.err, val |-> ZeroInfo, pos |-> s.pos]
    ELSE [err |-> NoError,
          val |-> [font_size |-> as_i16(u8_to_u16(v[1], le)),
                   smooth |-> BitSet(v[2][1], 7),
                   unicode |-> BitSet(v[2][1], 6),
                   italic |-> BitSet(v[2][1], 5),
                   bold |-> BitSet(v[2][1], 4),
                   fixed_height |-> BitSet(v[2][1], 3),
                   charset |-> v[3][1],
                   stretch_h |-> u8_to_u16(v[4], le),
                   aa |-> v[5][1],
                   padding_up |-> v[6][1],
                   padding_right |-> v[7][1],
                   padding_down |-> v[8][1],
                   padding_left |-> v[9][1],
                   spacing_horiz |-> v[10][1],
                   spacing_vert |-> v[11][1],
                   outline |-> v[12][1],
                   font_name |-> s.val],
          pos |-> s.pos]

InfoAfter(b, f, le) ==
    IF f.err # NoError THEN [err |-> f.err, val |-> ZeroInfo, pos |-> f.pos]
    ELSE InfoOf(f.val, parse_string(b, f.pos), le)

ParseInfo(b, p, le) == InfoAfter(b, ReadFields(b, SeekCurrent(p, 5), InfoWidths), le)

CommonWidths == <<2, 2, 2, 2, 2, 1, 1, 1, 1, 1>>

CommonOf(f, le) ==
    IF f.err # NoError THEN [err |-> f.err, val |-> ZeroCommon, pos |-> f.pos]
    ELSE [err |-> NoError,
          val |-> [line_height |-> u8_to_u16(f.val[1], le),
                   base |-> u8_to_u16(f.val[2], le),
                   scale_w |-> u8_to_u16(f.val[3], le),
                   scale_h |-> u8_to_u16(f.val[4], le),
                   pages |-> u8_to_u16(f.val[5], le),
                   packed |-> BitSet(f.val[6][1], 0),
                   alpha_chnl |-> f.val[7][1],
                   red_chnl |-> f.val[8][1],
                   green_chnl |-> f.val[9][1],
                   blue_chnl |-> f.val[10][1]],
          pos |-> f.pos]

ParseCommon(b, p, le) == CommonOf(ReadFields(b, SeekCurrent(p, 5), CommonWidths), le)

\* for _ in 0..n { block_pages.push(parse_string!(buff)) }
RECURSIVE ReadStrings(_, _, _)
StringsAfter(b, n, st) ==
    IF st.err # NoError THEN [err |-> st.err, val |-> <<>>, pos |-> st.pos]
    ELSE Push(st.val, ReadStrings(b, st.pos, n - 1))

ReadStrings(b, p, n) ==
    IF n = 0 THEN [err |-> NoError, val |-> <<>>, pos |-> p]
    ELSE StringsAfter(b, n, parse_string(b, p))

\* The loop over 0..=pages.
ParsePages_oneMore(b, p, pages) == ReadStrings(b, SeekCurrent(p, 5), pages + 1)

ParsePages(b, p, pages) == ReadStrings(b, SeekCurrent(p, 5), pages)

CharWidths == <<4, 2, 2, 2, 2, 2, 2, 2, 1, 1>>

CharOf(f, le) ==
    IF f.err # NoError THEN [err |-> f.err, val |-> f.val, pos |-> f.pos]
    ELSE [err |-> NoError,
          val |-> [id |-> u8_to_u32(f.val[1], le),
                   x |-> u8_to_u16(f.val[2], le),
                   y |-> u8_to_u16(f.val[3], le),
                   width |-> u8_to_u16(f.val[4], le),
                   height |-> u8_to_u16(f.val[5], le),
                   xoffset |-> as_i16(u8_to_u16(f.val[6], le)),
                   yoffset |-> as_i16(u8_to_u16(f.val[7], le)),
                   xadvance |-> as_i16(u8_to_u16(f.val[8], le)),
                   page |-> f.val[9][1],
                   chnl |-> f.val[10][1]],
          pos |-> f.pos]

ReadChar(b, p, le) == CharOf(ReadFields(b, p, CharWidths), le)

KerningWidths == <<4, 4, 2>>

KerningOf(f, le) ==
    IF f.err # NoError THEN [err |-> f.err, val |-> f.val, pos |-> f.pos]
    ELSE [err |-> NoError,
          val |-> [first |-> u8_to_u32(f.val[1], le),
                   second |-> u8_to_u32(f.val[2], le),
                   amount |-> as_i16(u8_to_u16(f.val[3], le))],
          pos |-> f.pos]

ReadKerning(b, p, le) == KerningOf(ReadFields(b, p, KerningWidths), le)

\* for _ in 0..n { list.push(<record>) }, the record being a Char or a Kerning.
RECURSIVE ReadRecords(_, _, _, _, _)
RecordsAfter(b, le, n, isChar, r) ==
    IF r.err # NoError THEN [err |-> r.err, val |-> <<>>, pos |-> r.pos]
    ELSE Push(r.val, ReadRecords(b, r.pos, le, n - 1, isChar))

ReadRecords(b, p, le, n, isChar) ==
    IF n = 0 THEN [err |-> NoError, val |-> <<>>, pos |-> p]
    ELSE RecordsAfter(b, le, n, isChar,
                      IF isChar THEN ReadChar(b, p, le) ELSE ReadKerning(b, p, le))

\* A count rounded up instead of down.
TotalChars_roundUp(size) == (size + SizeOfChar - 1) \div SizeOfChar

\* total_chars = size / size_of::<Char>() as u32
TotalChars(size) == size \div SizeOfChar

\* total_pairs = size / size_of::<Kerning>() as u32
TotalPairs(size) == size \div SizeOfKerning

\* The block whose declared size sz was read and whose records rs were then
\* read.
Sized(sz, rs) == [err |-> rs.err, size |-> sz.val, val |-> rs.val, pos |-> rs.pos]

CharsAfter(b, le, sz) ==
    IF sz.err # NoError THEN [err |-> sz.err, size |-> 0, val |-> <<>>, pos |-> sz.pos]
    ELSE Sized(sz, ReadRecords(b, sz.pos, le, TotalChars(sz.val), TRUE))

ParseChars(b, p, le) == CharsAfter(b, le, parse_u32(b, SeekCurrent(p, 1), le))

\* A test for a whole block header (tag and size) left in the buffer.
KerningBlockExists_wholeHeader(b, p) == p + 5 <= Len(b)

\* if buff.position() < bytes.len() as u64
KerningBlockExists(b, p) == p < Len(b)

SomeOf(r) ==
    [err |-> r.err, size |-> r.size,
     val |-> IF r.err = NoError THEN Some(r.val) ELSE None, pos |-> r.pos]

\* Pairs read to the end of the buffer, whatever size was declared.
KerningsAfter_toEnd(b, le, sz) ==
    IF sz.err # NoError THEN [err |-> sz.err, size |-> 0, val |-> <<>>, pos |-> sz.pos]
    ELSE Sized(sz, ReadRecords(b, sz.pos, le, (Len(b) - sz.pos) \div 10, FALSE))

KerningsAfter(b, le, sz) ==
    IF sz.err # NoError THEN [err |-> sz.err, size |-> 0, val |-> <<>>, pos |-> sz.pos]
    ELSE Sized(sz, ReadRecords(b, sz.pos, le, TotalPairs(sz.val), FALSE))

ParseKernings(b, p, le) ==
    IF KerningBlockExists(b, p)
    THEN SomeOf(KerningsAfter(b, le, parse_u32(b, SeekCurrent(p, 1), le)))
    ELSE [err |-> NoError, size |-> 0, val |-> None, pos |-> p]

\* for c in block_chars { char_map.insert(c.id, c) }
RECURSIVE CharMap(_, _)
CharMap(m, cs) ==
    IF cs = <<>> THEN m ELSE CharMap(Insert(m, Head(cs)), Tail(cs))

\* Ok(BMFont { .. })
Ok(bi, bc, bp, ch, bk) ==
    [err |-> NoError,
     font |-> [info |-> bi, common |-> bc, pages |-> bp,
               chars |-> CharMap(EmptyMap, ch), kernings |-> bk]]

Fail(e) == [err |-> e, font |-> ZeroFont]

\* parse_bin as a whole, [err, font]: each stage starts where the one before
\* it stopped, and the first error is returned.
FromKernings(bi, bc, bp, ch, bk) ==
    IF bk.err # NoError THEN Fail(bk.err)
    ELSE Ok(bi.val, bc.val, bp.val, ch.val, bk.val)

FromChars(b, le, bi, bc, bp, ch) ==
    IF ch.err # NoError THEN Fail(ch.err)
    ELSE FromKernings(bi, bc, bp, ch, ParseKernings(b, ch.pos, le))

FromPages(b, le, bi, bc, bp) ==
    IF bp.err # NoError THEN Fail(bp.err)
    ELSE FromChars(b, le, bi, bc, bp, ParseChars(b, bp.pos, le))

FromCommon(b, le, bi, bc) ==
    IF bc.err # NoError THEN Fail(bc.err)
    ELSE FromPages(b, le, bi, bc, ParsePages(b, bc.pos, bc.val.pages))

FromInfo(b, le, bi) ==
    IF bi.err # NoError THEN Fail(bi.err)
    ELSE FromCommon(b, le, bi, ParseCommon(b, bi.pos, le))

FromIdentifier(b, le, id) ==
    IF id.err # NoError THEN Fail(id.err)
    ELSE FromInfo(b, le, ParseInfo(b, id.pos, le))

ParseBin(b, le) == FromIdentifier(b, le, ParseIdentifier(b, 0))

\* A lookup that skips the bytes the map has no entry for (filter_map).
Known(chars, s) == SelectSeq(s, LAMBDA x : x \in DOMAIN chars)
str_to_chars_skipping(chars, s) ==
    [panic |-> FALSE, val |-> [i \in 1..Len(Known(chars, s)) |-> chars[Known(chars, s)[i]]]]

\* BMFont::str_to_chars: one &Char per byte of s; indexing the HashMap with
\* a key it does not hold panics.
str_to_chars(chars, s) ==
    IF \E i \in 1..Len(s) : s[i] \notin DOMAIN chars
    THEN [panic |-> TRUE, val |-> <<>>]
    ELSE [panic |-> FALSE, val |-> [i \in 1..Len(s) |-> chars[s[i]]]]

\* ------------------------------------------------------------------
\* Input buffers.  Every byte sequence is a legal argument of BMFont::new;
\* the ones explored are files in the binary layout (encoded little-endian),
\* with and without a kerning block, with block sizes that are and are not
\* multiples of the record widths, followed or not by further bytes, cut
\* short at every length, and with other identifiers and font names.

u16le(n) == <<n % 256, (n \div 256) % 256>>
u32le(n) == <<n % 256, (n \div 256) % 256, (n \div 65536) % 256, (n \div 16777216) % 256>>
i16le(n) == u16le((n + 65536) % 65536)

RECURSIVE Flatten(_)
Flatten(ss) == IF ss = <<>> THEN <<>> ELSE Head(ss) \o Flatten(Tail(ss))

InfoBytes(name) ==
    <<1>> \o u32le(15 + Len(name)) \o i16le(12) \o <<128, 0>> \o u16le(100)
          \o <<1, 1, 2, 3, 4, 5, 6, 7>> \o name \o <<0>>

CommonBytes(n) ==
    <<2>> \o u32le(15) \o u16le(20) \o u16le(16) \o u16le(256) \o u16le(512)
          \o u16le(n) \o <<0, 0, 1, 2, 3>>

PageName(i) == <<112, 48 + i>>

PagesBytes(n) ==
    <<3>> \o u32le(3 * n) \o Flatten([i \in 1..n |-> PageName(i) \o <<0>>])

\* The k-th glyph record of a block: x carries k, so that records with the
\* same id differ.
CharBytes(id, k) ==
    u32le(id) \o u16le(k) \o u16le(0) \o u16le(10) \o u16le(12)
              \o i16le(-1) \o i16le(0) \o i16le(8) \o <<0, 15>>

CharsBytes(sz, ids) ==
    <<4>> \o u32le(sz) \o Flatten([k \in 1..Len(ids) |-> CharBytes(ids[k], k)])

\* The k-th pair of a block: the first two pairs are the same, the later
\* ones differ from them.
KerningBytes(k) == u32le(65) \o u32le(66) \o i16le(IF k <= 2 THEN -1 ELSE k)

KerningsBytes(sz, n) ==
    <<5>> \o u32le(sz) \o Flatten([k \in 1..n |-> KerningBytes(k)])

CharIds == {65, 66}
IdSeqs == UNION {[1..n -> CharIds] : n \in 0..MaxChars}

\* Declared sizes: the records present, at 20 bytes each, plus 0 or 5.
CharsBlocks == {CharsBytes(20 * Len(ids) + r, ids) : ids \in IdSeqs, r \in {0, 5}}
\* Declared sizes: the pairs present, at 10 or at 12 bytes each.
KerningsBlocks == {KerningsBytes(w * n, n) : n \in 0..MaxPairs, w \in {10, 12}}

Junk == {<<>>, <<7>>, <<0, 0, 0, 0, 0>>}
Tails == Junk \cup {k \o j : k \in KerningsBlocks, j \in {<<>>, <<7>>}}

Body(name, n, chars, tail) ==
    InfoBytes(name) \o CommonBytes(n) \o PagesBytes(n) \o chars \o tail

Files ==
    {Signature \o Body(<<65>>, n, c, t) : n \in 0..MaxPages, c \in CharsBlocks, t \in Tails}

Canon ==
    Signature \o Body(<<65, 98>>, 1, CharsBytes(40, <<65, 65>>),
                      KerningsBytes(24, 2))

Prefixes == {SubSeq(Canon, 1, n) : n \in 0..Len(Canon)}

OtherIdentifiers == {<<66, 77, 70, 2>>, <<0, 77, 70, 3>>, <<66, 77, 70, 4>>, <<3, 70, 77, 66>>}
OtherIdentified ==
    {i \o r : i \in OtherIdentifiers,
              r \in {<<>>, <<1>>, SubSeq(Canon, 5, Len(Canon)),
                     Body(<<65>>, 0, CharsBytes(0, <<>>), <<>>)}}

Names == {<<>>, <<255>>, <<195, 169>>, <<195>>, <<65, 192, 128>>}
Named == {Signature \o Body(nm, 1, CharsBytes(20, <<66>>), <<>>) : nm \in Names}

Inputs == Files \cup Prefixes \cup OtherIdentified \cup Named

TextBytes == {65, 67}
Texts == UNION {[1..n -> TextBytes] : n \in 0..MaxText}

\* ------------------------------------------------------------------
\* State.

VARIABLES
    bytes,           \* the argument of BMFont::new
    little_endian,   \* the byte order of the target the crate is built for
    pc,              \* where parse_bin is, or how it returned
    pos,             \* buff.position()
    err,             \* the Err returned, if any
    entry,           \* the cursor position at which each stage began
    block_info, block_common, block_pages,
    size, block_chars,        \* Chars block: declared size, records read
    size_k, block_kernings,   \* Kernings block: declared size, pairs read
    font,            \* the BMFont returned
    s, glyphs        \* str_to_chars: its argument and what it gave

vars ==
    <<bytes, little_endian, pc, pos, err, entry, block_info, block_common,
      block_pages, size, block_chars, size_k, block_kernings, font, s, glyphs>>

Stages == {"identifier", "info", "common", "pages", "chars", "kernings"}

Init ==
    /\ bytes \in Inputs
    /\ little_endian \in BOOLEAN
    /\ pc = "identifier"
    /\ pos = 0
    /\ err = NoError
    /\ entry = [st \in Stages |-> 0]
    /\ block_info = ZeroInfo
    /\ block_common = ZeroCommon
    /\ block_pages = <<>>
    /\ size = 0
    /\ block_chars = <<>>
    /\ size_k = 0
    /\ block_kernings = None
    /\ font = ZeroFont
    /\ s = <<>>
    /\ glyphs = [panic |-> FALSE, val |-> <<>>]

\* A stage ran from the current position and gave r: the cursor moves, and
\* an error makes parse_bin return it.
Step(stage, r, next) ==
    /\ pc = stage
    /\ entry' = [entry EXCEPT ![stage] = pos]
    /\ pos' = r.pos
    /\ err' = r.err
    /\ pc' = IF r.err = NoError THEN next ELSE "err"
    /\ UNCHANGED <<bytes, little_endian, font, s, glyphs>>

Identifier ==
    /\ Step("identifier", ParseIdentifier(bytes, pos), "info")
    /\ UNCHANGED <<block_info, block_common, block_pages, size, block_chars,
                   size_k, block_kernings>>

InfoBlock ==
    LET r == ParseInfo(bytes, pos, little_endian)
    IN /\ Step("info", r, "common")
       /\ block_info' = r.val
       /\ UNCHANGED <<block_common, block_pages, size, block_chars, size_k,
                      block_kernings>>

CommonBlock ==
    LET r == ParseCommon(bytes, pos, little_endian)
    IN /\ Step("common", r, "pages")
       /\ block_common' = r.val
       /\ UNCHANGED <<block_info, block_pages, size, block_chars, size_k,
                      block_kernings>>

PagesBlock ==
    LET r == ParsePages(bytes, pos, block_common.pages)
    IN /\ Step("pages", r, "chars")
       /\ block_pages' = r.val
       /\ UNCHANGED <<block_info, block_common, size, block_chars, size_k,
                      block_kernings>>

CharsBlock ==
    LET r == ParseChars(bytes, pos, little_endian)
    IN /\ Step("chars", r, "kernings")
       /\ size' = r.size
       /\ block_chars' = r.val
       /\ UNCHANGED <<block_info, block_common, block_pages, size_k, block_kernings>>

KerningsBlock ==
    LET r == ParseKernings(bytes, pos, little_endian)
    IN /\ Step("kernings", r, "assemble")
       /\ size_k' = r.size
       /\ block_kernings' = r.val
       /\ UNCHANGED <<block_info, block_common, block_pages, size, block_chars>>

\* Lines 190-202: build the map, return Ok(BMFont { .. }).
Assemble ==
    /\ pc = "assemble"
    /\ font' = [info |-> block_info, common |-> block_common, pages |-> block_pages,
                chars |-> CharMap(EmptyMap, block_chars), kernings |-> block_kernings]
    /\ pc' = "ok"
    /\ UNCHANGED <<bytes, little_endian, pos, err, entry, block_info, block_common,
                   block_pages, size, block_chars, size_k, block_kernings, s, glyphs>>

\* font.str_to_chars(text), on the font a successful BMFont::new returned.
\* The call reads the font and changes nothing, so one call per run shows
\* all a later call could.
StrToChars ==
    /\ pc = "ok"
    /\ \E text \in Texts :
          /\ s' = text
          /\ glyphs' = str_to_chars(font.chars, text)
    /\ pc' = "lookup"
    /\ UNCHANGED <<bytes, little_endian, pos, err, entry, block_info, block_common,
                   block_pages, size, block_chars, size_k, block_kernings, font>>

Next ==
    \/ Identifier
    \/ InfoBlock
    \/ CommonBlock
    \/ PagesBlock
    \/ CharsBlock
    \/ KerningsBlock
    \/ Assemble
    \/ StrToChars

Spec == Init /\ [][Next]_vars

\* ------------------------------------------------------------------
\* The step-wise run and the function agree.
RunIsParseBin ==
    /\ pc = "ok" => ParseBin(bytes, little_endian) = [err |-> NoError, font |-> font]
    /\ pc = "err" => ParseBin(bytes, little_endian) = [err |-> err, font |-> ZeroFont]

\* ------------------------------------------------------------------
\* Vocabulary of the claims.

Returned == pc \in {"ok", "lookup"}
PastPages == pc \in {"chars", "kernings", "assemble", "ok", "lookup"}
PastChars == pc \in {"kernings", "assemble", "ok", "lookup"}
PastKernings == pc \in {"assemble", "ok", "lookup"}

\* The error kinds of the specification.
Truncated == UnexpectedEof
BadSignature == MissingIdentifier

\* Where the font name starts: identifier, 5 skipped bytes, 14 bytes of fields.
NameStart == 4 + 5 + 14

HasZeroFrom(b, p) == \E i \in (p + 1)..Len(b) : b[i] = 0

\* The cursor position at which the i-th of consecutive null-terminated
\* strings starts, the first starting at p.
RECURSIVE StringStart(_, _, _)
StringStart(b, p, i) ==
    IF i = 1 THEN p ELSE FindZero(b, StringStart(b, p, i - 1)) + 1

\* The bytes from position p up to the first zero byte after it.
UpToZero(b, p) == SubSeq(b, p + 1, FindZero(b, p))

\* Position of the k-th record of a block that began (with its tag) at e.
RecordAt(e, width, k) == e + 5 + width * (k - 1)

\* Bytes appended to a buffer: one byte, five zero bytes, six bytes, and a
\* whole kerning block of one pair.
Appended == {<<9>>, <<0, 0, 0, 0, 0>>, <<1, 2, 3, 4, 5, 6>>, KerningsBytes(12, 1)}

\* ------------------------------------------------------------------
\* C1: when the Kernings block is attempted and read, the number of pairs is
\* the declared size divided by 10, rounded down, and the i-th entry holds
\* the fields of the i-th 10-byte record after the size field.
C1_PairsAreSizeOver10 ==
    (PastKernings /\ block_kernings.some) =>
        /\ Len(block_kernings.list) = size_k \div 10
        /\ \A i \in 1..Len(block_kernings.list) :
              block_kernings.list[i]
                  = ReadKerning(bytes, RecordAt(entry["kernings"], 10, i), little_endian).val

\* C2: after a successful decode, kernings is None exactly when the cursor
\* stood at the end of the buffer right after the last glyph record; otherwise
\* it is Some, and a block declaring size 0 gives Some of the empty sequence.
C2_KerningPresence ==
    PastKernings =>
        /\ (block_kernings = None) <=> (entry["kernings"] = Len(bytes))
        /\ (entry["kernings"] # Len(bytes)) => block_kernings.some
        /\ (block_kernings.some /\ size_k = 0) => block_kernings = Some(<<>>)
        /\ Returned => font.kernings = block_kernings

C2_Witness ==
    /\ pc = "ok"
    /\ entry["kernings"] < Len(bytes)
    /\ size_k = 0
    /\ font.kernings = Some(<<>>)

\* C3: a buffer that decodes with kernings = None, with its final byte
\* removed, fails with Truncated and gives no font.
C3_TruncatedByOne ==
    (pc = "ok" /\ ~font.kernings.some) =>
        ParseBin(Popped(bytes), little_endian) = Fail(Truncated)

C3_Witness ==
    /\ pc = "ok"
    /\ ~font.kernings.some
    /\ Len(block_chars) >= 1
    /\ ParseBin(Popped(bytes), little_endian).err = Truncated

\* C4: a buffer whose first 4 bytes are not 0x42 0x4D 0x46 0x03 fails with
\* BadSignature as soon as those 4 bytes are read, whatever follows them,
\* and no font is returned.
C4_BadSignature ==
    (Len(bytes) >= 4 /\ SubSeq(bytes, 1, 4) # <<66, 77, 70, 3>>) =>
        /\ pc \in {"identifier", "err"}
        /\ pc = "err" => (err = BadSignature /\ pos = 4 /\ font = ZeroFont)
        /\ ParseBin(bytes, little_endian) = Fail(BadSignature)

C4_Witness ==
    /\ pc = "err"
    /\ err = BadSignature
    /\ Len(bytes) > 50
    /\ SubSeq(bytes, 1, 3) = <<66, 77, 70>>

\* C5: the Chars stage reads size div 20 records of 20 bytes and leaves the
\* cursor right after them; the size mod 20 remainder is not consumed, and
\* the stage fails only if the buffer ends before those records do.
C5_GlyphCount ==
    /\ PastChars =>
          /\ Len(block_chars) = size \div 20
          /\ entry["kernings"] # 0 =>
                entry["kernings"] = RecordAt(entry["chars"], 20, (size \div 20) + 1)
          /\ pc = "kernings" => pos = RecordAt(entry["chars"], 20, (size \div 20) + 1)
    /\ (pc = "err" /\ entry["chars"] # 0 /\ entry["kernings"] = 0) =>
          \/ entry["chars"] + 5 > Len(bytes)
          \/ RecordAt(entry["chars"], 20,
                      (parse_u32(bytes, entry["chars"] + 1, little_endian).val \div 20) + 1)
               > Len(bytes)

C5_Witness ==
    /\ pc = "kernings"
    /\ size = 45
    /\ Len(block_chars) = 2
    /\ pos = entry["chars"] + 45

\* C6: the chars map has one entry per distinct id among the records read,
\* and the entry for an id is the last record with that id.
C6_LastWriteWins ==
    Returned =>
        /\ DOMAIN font.chars = {block_chars[i].id : i \in 1..Len(block_chars)}
        /\ \A i \in 1..Len(block_chars) :
              block_chars[i]
                  = ReadChar(bytes, RecordAt(entry["chars"], 20, i), little_endian).val
        /\ \A c \in DOMAIN font.chars :
              /\ font.chars[c].id = c
              /\ \E i \in 1..Len(block_chars) :
                    /\ font.chars[c] = block_chars[i]
                    /\ \A j \in (i + 1)..Len(block_chars) : block_chars[j].id # c

C6_Witness ==
    /\ pc = "ok"
    /\ Len(block_chars) = 2
    /\ block_chars[1].id = block_chars[2].id
    /\ block_chars[1] # block_chars[2]
    /\ font.chars[block_chars[1].id] = block_chars[2]

\* C7: the pages sequence has common.pages entries, the i-th being the i-th
\* null-terminated string after the Pages block header; with pages = 0 it is
\* empty and nothing is read.
C7_PagesCount ==
    /\ PastPages => Len(block_pages) = block_common.pages
    /\ Returned =>
          /\ font.pages = block_pages
          /\ font.common = block_common
          /\ Len(font.pages) = font.common.pages
          /\ \A i \in 1..Len(font.pages) :
                font.pages[i] = UpToZero(bytes, StringStart(bytes, entry["pages"] + 5, i))
          /\ entry["chars"] = StringStart(bytes, entry["pages"] + 5, font.common.pages + 1)

C7_Witness ==
    /\ pc = "ok"
    /\ font.common.pages = 2
    /\ font.pages = <<PageName(1), PageName(2)>>

\* C8: str_to_chars gives one glyph per byte of the text, in order, if every
\* byte is a key of the map; otherwise it fails and gives no sequence.
C8_Lookup ==
    pc = "lookup" =>
        IF \A i \in 1..Len(s) : s[i] \in DOMAIN font.chars
        THEN /\ ~glyphs.panic
             /\ Len(glyphs.val) = Len(s)
             /\ \A i \in 1..Len(s) : glyphs.val[i] = font.chars[s[i]]
        ELSE glyphs.panic /\ glyphs.val = <<>>

C8_Witness ==
    /\ pc = "lookup"
    /\ Len(s) = 2
    /\ s[1] \in DOMAIN font.chars
    /\ s[2] \notin DOMAIN font.chars
    /\ glyphs.panic

\* C9: parse_string fails, returning no string, if no zero byte occurs from
\* where it starts to the end of the buffer; if one does (and the bytes
\* before it are UTF-8) it returns exactly those bytes and leaves the cursor
\* just past the zero byte.  Stated of the font name, read at NameStart.
C9_StringNeedsTerminator ==
    (pc \notin {"identifier", "info"} /\ err # BadSignature /\ Len(bytes) >= NameStart) =>
        IF HasZeroFrom(bytes, NameStart)
        THEN IsUtf8(UpToZero(bytes, NameStart)) =>
                /\ block_info.font_name = UpToZero(bytes, NameStart)
                /\ entry["common"] # 0 => entry["common"] = FindZero(bytes, NameStart) + 1
        ELSE pc = "err" /\ entry["common"] = 0

\* C10: once a Kernings block was read, nothing after its last pair matters:
\* appending bytes, or changing a byte after the last pair read, gives the
\* same font; with kernings = None, appending bytes changes the outcome.
C10_TrailingBytesIgnored ==
    pc = "ok" =>
        IF font.kernings.some
        THEN /\ \A x \in Appended :
                   ParseBin(bytes \o x, little_endian) = [err |-> NoError, font |-> font]
             /\ \A i \in (pos + 1)..Len(bytes) : \A v \in {0, 100} :
                   ParseBin([bytes EXCEPT ![i] = v], little_endian)
                       = [err |-> NoError, font |-> font]
        ELSE \A x \in Appended :
                   ParseBin(bytes \o x, little_endian) # [err |-> NoError, font |-> font]

C10_Witness ==
    /\ pc = "ok"
    /\ font.kernings.some
    /\ Len(font.kernings.list) >= 1
    /\ pos < Len(bytes)

====
